---- MODULE Spec2Model ----
(***************************************************************************)
(* RTT estimation of quiche's loss recovery (quiche/src/recovery/rtt.rs)   *)
(* and the event loop of h3i's synchronous client                          *)
(* (h3i/src/client/sync_client.rs).                                        *)
(*                                                                         *)
(* Durations are integers in nanoseconds, as std::time::Duration keeps     *)
(* them; Instants are integers in seconds, the unit of RTT_WINDOW.         *)
(* The windowed-minimum tracker (crate::minmax::Minmax) is not part of the *)
(* sources at hand; it is modelled from its documented contract.           *)
(***************************************************************************)
EXTENDS Integers, Sequences, FiniteSets, TLC

VARIABLES
    stats,                    \* the RttStats instance
    twin,                     \* a second RttStats, constructed identically
    clock,                    \* the caller's Instant of the last call
    calls,                    \* number of update_rtt calls so far
    samples,                  \* <<latest_rtt, now>> of every call, in order
    arg_ack_delay,            \* ack_delay argument of the last call
    arg_handshake_confirmed,  \* handshake_confirmed argument of the last call
    adjusted_rtt,             \* local adjusted_rtt of the last call
    arg_initial_rtt,          \* initial_rtt argument of new
    faults,                   \* whether a call panicked / truncated a value
    client                    \* the locals of sync_client::connect

rttvars == <<stats, twin, clock, calls, samples, arg_ack_delay,
             arg_handshake_confirmed, adjusted_rtt, arg_initial_rtt, faults>>

vars == <<rttvars, client>>

----------------------------------------------------------------------------
(* Bounds and input domains *)

MaxCalls == 3

\* Duration::from_millis, in nanoseconds
ms(n) == n * 1000000

\* RTT samples fed to update_rtt (ns)
RttSamples == {3, ms(50), ms(60), ms(100), ms(120)}

\* peer-reported ack delays (ns)
AckDelays == {0, ms(40)}

\* initial_rtt arguments of new (ns)
InitialRtts == {0, ms(333) + 1}

\* max_ack_delay arguments of new (ns)
MaxAckDelays == {ms(25)}

\* advance of the caller's clock between two calls (s)
TimeSteps == {0, 300, 301}

\* time_thresh arguments of loss_delay, as <<numerator, denominator>>
TimeThreshs == {<<0, 1>>, <<1, 1>>, <<9, 8>>, <<2, 1>>}

\* local adjusted_rtt is not assigned on the bootstrap path
NoValue == 0 - 1

----------------------------------------------------------------------------
(* std::time::Duration helpers *)

DurationMin(a, b) == IF a <= b THEN a ELSE b

DurationMax(a, b) == IF a >= b THEN a ELSE b

\* Duration::MAX in nanoseconds. The model's integers are 32 bits wide, so the
\* range of Duration is scaled down to them; the extreme inputs are this value
\* itself, next to samples of a few nanoseconds.
DURATION_MAX == 2147483647

\* number of values of u64, scaled down likewise (below DURATION_MAX, above
\* every RTT sample)
U64_RANGE == 268435456

\* Duration + Duration panics when the sum is not representable
add_overflows(a, b) == a > DURATION_MAX - b

\* Duration * u32 panics when the product is not representable
mul_overflows(a, k) == a > DURATION_MAX \div k

\* u128 as u64 keeps the low bits
as_u64(n) == n % U64_RANGE

\* u128::abs_diff
abs_diff(a, b) == IF a >= b THEN a - b ELSE b - a

\* Instant::duration_since saturates at zero
duration_since(later, earlier) == IF later >= earlier THEN later - earlier ELSE 0

\* Duration::mul_f64 for a finite non-negative factor num/den: the product,
\* truncated to whole nanoseconds
mul_f64(d, time_thresh) ==
    (d \div time_thresh[2]) * time_thresh[1]
    + ((d % time_thresh[2]) * time_thresh[1]) \div time_thresh[2]

\* Option<Duration>
None == <<"None">>

Some(v) == <<"Some", v>>

----------------------------------------------------------------------------
(* Windowed-minimum tracker: a monotonic queue of <<value, observed_at>>   *)
(* candidates, values strictly increasing from head to tail.               *)

\* variant: a window one second short
RTT_WINDOW_short == 300 - 1

\* variant: a window one second long
RTT_WINDOW_long == 300 + 1

RTT_WINDOW == 300

RECURSIVE DropWhileExpired(_, _, _)
DropWhileExpired(q, window, now) ==
    IF q # <<>> /\ duration_since(now, q[1][2]) > window
    THEN DropWhileExpired(Tail(q), window, now)
    ELSE q

RECURSIVE DropLarger(_, _)
DropLarger(q, value) ==
    IF q # <<>> /\ q[Len(q)][1] >= value
    THEN DropLarger(SubSeq(q, 1, Len(q) - 1), value)
    ELSE q

Minmax_new(val, now) == << <<val, now>> >>

reset(now, value) == << <<value, now>> >>

running_min(q, window, now, value) ==
    Append(DropLarger(DropWhileExpired(q, window, now), value), <<value, now>>)

Deref(q) == q[1][1]

----------------------------------------------------------------------------
(* RttStats *)

\* variant: the initial rttvar is rounded to nearest instead of truncated
new_rttvar_rounded(initial_rtt, max_ack_delay, now) ==
    [ latest_rtt           |-> 0,
      min_rtt              |-> Minmax_new(initial_rtt, now),
      smoothed_rtt         |-> initial_rtt,
      max_rtt              |-> initial_rtt,
      rttvar               |-> (initial_rtt + 1) \div 2,
      has_first_rtt_sample |-> FALSE,
      max_ack_delay        |-> max_ack_delay ]

new(initial_rtt, max_ack_delay, now) ==
    [ latest_rtt           |-> 0,
      min_rtt              |-> Minmax_new(initial_rtt, now),
      smoothed_rtt         |-> initial_rtt,
      max_rtt              |-> initial_rtt,
      rttvar               |-> initial_rtt \div 2,
      has_first_rtt_sample |-> FALSE,
      max_ack_delay        |-> max_ack_delay ]

\* variant: halves rounding to nearest instead of truncating
bootstrap_rttvar_rounded(latest_rtt) == (latest_rtt + 1) \div 2

\* rttvar of the bootstrap path
bootstrap_rttvar(latest_rtt) == latest_rtt \div 2

\* variant: the maximum follows the latest sample
next_max_rtt_latest(max_rtt, latest_rtt) == latest_rtt

\* variant: the maximum is never raised
next_max_rtt_stale(max_rtt, latest_rtt) == max_rtt

\* max_rtt of the steady-state path
next_max_rtt(max_rtt, latest_rtt) == DurationMax(max_rtt, latest_rtt)

\* variant: the limit is never applied
limit_ack_delay_never(ack_delay, max_ack_delay, handshake_confirmed) == ack_delay

\* ack_delay after the limit by max_ack_delay
limit_ack_delay(ack_delay, max_ack_delay, handshake_confirmed) ==
    IF handshake_confirmed THEN DurationMin(ack_delay, max_ack_delay)
    ELSE ack_delay

\* variant: strict plausibility comparison
adjust_rtt_strict(latest_rtt, min_rtt, ack_delay) ==
    IF latest_rtt > min_rtt + ack_delay THEN latest_rtt - ack_delay
    ELSE latest_rtt

\* variant: the ack delay is subtracted whenever the sample covers it
adjust_rtt_unchecked(latest_rtt, min_rtt, ack_delay) ==
    IF latest_rtt >= ack_delay THEN latest_rtt - ack_delay
    ELSE latest_rtt

\* adjusted_rtt: the sample less the ack delay, if plausible
adjust_rtt(latest_rtt, min_rtt, ack_delay) ==
    IF latest_rtt >= min_rtt + ack_delay THEN latest_rtt - ack_delay
    ELSE latest_rtt

\* variant: the deviation is taken from the already updated smoothed_rtt
next_rttvar_after_smoothing(rttvar, smoothed_rtt, adj) ==
    (rttvar * 3) \div 4 +
    abs_diff((smoothed_rtt * 7) \div 8 + adj \div 8, adj) \div 4

next_rttvar(rttvar, smoothed_rtt, adj) ==
    (rttvar * 3) \div 4 + as_u64(abs_diff(smoothed_rtt, adj)) \div 4

\* variant: a single division of the weighted sum
next_smoothed_rtt_single_division(smoothed_rtt, adj) ==
    (smoothed_rtt * 7 + adj) \div 8

next_smoothed_rtt(smoothed_rtt, adj) ==
    (smoothed_rtt * 7) \div 8 + adj \div 8

\* value of the local adjusted_rtt in a steady-state call
steady_adjusted_rtt(self, latest_rtt, ack_delay, now, handshake_confirmed) ==
    adjust_rtt(latest_rtt,
               Deref(running_min(self.min_rtt, RTT_WINDOW, now, latest_rtt)),
               limit_ack_delay(ack_delay, self.max_ack_delay,
                               handshake_confirmed))

\* variant: the windowed minimum is fed the adjusted sample
update_rtt_min_adjusted(self, latest_rtt, ack_delay, now, handshake_confirmed) ==
    IF ~self.has_first_rtt_sample
    THEN [ self EXCEPT
             !.latest_rtt = latest_rtt,
             !.min_rtt = reset(now, latest_rtt),
             !.smoothed_rtt = latest_rtt,
             !.max_rtt = latest_rtt,
             !.rttvar = bootstrap_rttvar(latest_rtt),
             !.has_first_rtt_sample = TRUE ]
    ELSE LET adj == steady_adjusted_rtt(self, latest_rtt, ack_delay, now,
                                        handshake_confirmed)
         IN [ self EXCEPT
                !.latest_rtt = latest_rtt,
                !.min_rtt = running_min(self.min_rtt, RTT_WINDOW, now, adj),
                !.max_rtt = next_max_rtt(self.max_rtt, latest_rtt),
                !.rttvar = next_rttvar(self.rttvar, self.smoothed_rtt, adj),
                !.smoothed_rtt = next_smoothed_rtt(self.smoothed_rtt, adj) ]

\* variant: the first sample is fed to the tracker without a reset
update_rtt_no_reset(self, latest_rtt, ack_delay, now, handshake_confirmed) ==
    IF ~self.has_first_rtt_sample
    THEN [ self EXCEPT
             !.latest_rtt = latest_rtt,
             !.min_rtt = running_min(self.min_rtt, RTT_WINDOW, now,
                                     latest_rtt),
             !.smoothed_rtt = latest_rtt,
             !.max_rtt = latest_rtt,
             !.rttvar = bootstrap_rttvar(latest_rtt),
             !.has_first_rtt_sample = TRUE ]
    ELSE LET adj == steady_adjusted_rtt(self, latest_rtt, ack_delay, now,
                                        handshake_confirmed)
         IN [ self EXCEPT
                !.latest_rtt = latest_rtt,
                !.min_rtt = running_min(self.min_rtt, RTT_WINDOW, now,
                                        latest_rtt),
                !.max_rtt = next_max_rtt(self.max_rtt, latest_rtt),
                !.rttvar = next_rttvar(self.rttvar, self.smoothed_rtt, adj),
                !.smoothed_rtt = next_smoothed_rtt(self.smoothed_rtt, adj) ]

\* variant: the bootstrap path leaves has_first_rtt_sample unset
update_rtt_flag_unset(self, latest_rtt, ack_delay, now, handshake_confirmed) ==
    IF ~self.has_first_rtt_sample
    THEN [ self EXCEPT
             !.latest_rtt = latest_rtt,
             !.min_rtt = reset(now, latest_rtt),
             !.smoothed_rtt = latest_rtt,
             !.max_rtt = latest_rtt,
             !.rttvar = bootstrap_rttvar(latest_rtt) ]
    ELSE LET adj == steady_adjusted_rtt(self, latest_rtt, ack_delay, now,
                                        handshake_confirmed)
         IN [ self EXCEPT
                !.latest_rtt = latest_rtt,
                !.min_rtt = running_min(self.min_rtt, RTT_WINDOW, now,
                                        latest_rtt),
                !.max_rtt = next_max_rtt(self.max_rtt, latest_rtt),
                !.rttvar = next_rttvar(self.rttvar, self.smoothed_rtt, adj),
                !.smoothed_rtt = next_smoothed_rtt(self.smoothed_rtt, adj) ]

update_rtt(self, latest_rtt, ack_delay, now, handshake_confirmed) ==
    IF ~self.has_first_rtt_sample
    THEN [ self EXCEPT
             !.latest_rtt = latest_rtt,
             !.min_rtt = reset(now, latest_rtt),
             !.smoothed_rtt = latest_rtt,
             !.max_rtt = latest_rtt,
             !.rttvar = bootstrap_rttvar(latest_rtt),
             !.has_first_rtt_sample = TRUE ]
    ELSE LET adj == steady_adjusted_rtt(self, latest_rtt, ack_delay, now,
                                        handshake_confirmed)
         IN [ self EXCEPT
                !.latest_rtt = latest_rtt,
                !.min_rtt = running_min(self.min_rtt, RTT_WINDOW, now,
                                        latest_rtt),
                !.max_rtt = next_max_rtt(self.max_rtt, latest_rtt),
                !.rttvar = next_rttvar(self.rttvar, self.smoothed_rtt, adj),
                !.smoothed_rtt = next_smoothed_rtt(self.smoothed_rtt, adj) ]

\* the statement of a steady-state call that panics, if any
panic_point(self, latest_rtt, ack_delay, now, handshake_confirmed) ==
    LET min == Deref(running_min(self.min_rtt, RTT_WINDOW, now, latest_rtt))
        delay == limit_ack_delay(ack_delay, self.max_ack_delay,
                                 handshake_confirmed)
        adj == adjust_rtt(latest_rtt, min, delay)
    IN  IF ~self.has_first_rtt_sample THEN "none"
        ELSE IF add_overflows(min, delay) THEN "adjusted_rtt"
        ELSE IF \/ mul_overflows(self.rttvar, 3)
                \/ add_overflows((self.rttvar * 3) \div 4,
                                 as_u64(abs_diff(self.smoothed_rtt, adj))
                                     \div 4)
             THEN "rttvar"
        ELSE IF \/ mul_overflows(self.smoothed_rtt, 7)
                \/ add_overflows((self.smoothed_rtt * 7) \div 8, adj \div 8)
             THEN "smoothed_rtt"
        ELSE "none"

\* whether the cast of the deviation to u64 loses high bits
cast_truncates(self, latest_rtt, ack_delay, now, handshake_confirmed) ==
    /\ self.has_first_rtt_sample
    /\ panic_point(self, latest_rtt, ack_delay, now, handshake_confirmed)
          \in {"none", "smoothed_rtt"}
    /\ abs_diff(self.smoothed_rtt,
                steady_adjusted_rtt(self, latest_rtt, ack_delay, now,
                                    handshake_confirmed)) >= U64_RANGE

\* the fields as a call leaves them: all assignments when it returns, those
\* before the panicking statement when it panics
update_rtt_outcome(self, latest_rtt, ack_delay, now, handshake_confirmed) ==
    LET point == panic_point(self, latest_rtt, ack_delay, now,
                             handshake_confirmed)
        begun == [ self EXCEPT
                     !.latest_rtt = latest_rtt,
                     !.min_rtt = running_min(self.min_rtt, RTT_WINDOW, now,
                                             latest_rtt),
                     !.max_rtt = next_max_rtt(self.max_rtt, latest_rtt) ]
    IN  IF point = "none"
        THEN update_rtt(self, latest_rtt, ack_delay, now, handshake_confirmed)
        ELSE IF point = "smoothed_rtt"
        THEN [ begun EXCEPT
                 !.rttvar = next_rttvar(self.rttvar, self.smoothed_rtt,
                                steady_adjusted_rtt(self, latest_rtt,
                                    ack_delay, now, handshake_confirmed)) ]
        ELSE begun

rtt(self) == self.smoothed_rtt

get_latest_rtt(self) == self.latest_rtt

get_rttvar(self) == self.rttvar

\* variant: the tracker's value is reported whether or not a sample arrived
get_min_rtt_unguarded(self) == Some(Deref(self.min_rtt))

get_min_rtt(self) ==
    IF self.has_first_rtt_sample THEN Some(Deref(self.min_rtt)) ELSE None

get_max_rtt(self) ==
    IF self.has_first_rtt_sample THEN Some(self.max_rtt) ELSE None

\* crate::recovery::GRANULARITY, the timer granularity floor
GRANULARITY == ms(1)

\* variant: the floor is taken as a ceiling
loss_delay_min_floor(self, time_thresh) ==
    DurationMin(mul_f64(DurationMax(self.latest_rtt, self.smoothed_rtt),
                        time_thresh),
                GRANULARITY)

\* variant: the latest sample is left out
loss_delay_smoothed_only(self, time_thresh) ==
    DurationMax(mul_f64(self.smoothed_rtt, time_thresh), GRANULARITY)

loss_delay(self, time_thresh) ==
    DurationMax(mul_f64(DurationMax(self.latest_rtt, self.smoothed_rtt),
                        time_thresh),
                GRANULARITY)

----------------------------------------------------------------------------
(* The estimator driven by its caller *)

\* the estimator right after RttStats::new(initial_rtt, max_ack_delay)
InitRtt(initial_rtt, max_ack_delay) ==
    /\ clock = 0
    /\ stats = new(initial_rtt, max_ack_delay, 0)
    /\ twin = new(initial_rtt, max_ack_delay, 0)
    /\ arg_initial_rtt = initial_rtt
    /\ calls = 0
    /\ samples = <<>>
    /\ arg_ack_delay = 0
    /\ arg_handshake_confirmed = FALSE
    /\ adjusted_rtt = NoValue
    /\ faults = [panicked |-> FALSE, truncated |-> FALSE]

Init ==
    /\ \E initial_rtt \in InitialRtts, max_ack_delay \in MaxAckDelays :
          InitRtt(initial_rtt, max_ack_delay)
    /\ client = [pc |-> "not started"]

\* one call stats.update_rtt(latest_rtt, ack_delay, now, handshake_confirmed)
UpdateRtt ==
    /\ calls < MaxCalls
    /\ \E latest_rtt \in RttSamples, ack_delay \in AckDelays,
          step \in TimeSteps, handshake_confirmed \in BOOLEAN :
          LET now == clock + step IN
          /\ stats' = update_rtt(stats, latest_rtt, ack_delay, now,
                                 handshake_confirmed)
          /\ adjusted_rtt' =
                IF stats.has_first_rtt_sample
                THEN steady_adjusted_rtt(stats, latest_rtt, ack_delay, now,
                                         handshake_confirmed)
                ELSE NoValue
          /\ clock' = now
          /\ samples' = Append(samples, <<latest_rtt, now>>)
          /\ arg_ack_delay' = ack_delay
          /\ arg_handshake_confirmed' = handshake_confirmed
    /\ calls' = calls + 1
    /\ UNCHANGED <<twin, arg_initial_rtt, faults, client>>

Next == UpdateRtt

Spec == Init /\ [][Next]_vars

\* one call on each of two estimators: the same latest_rtt and now, each its
\* own ack_delay and handshake_confirmed
UpdateRttPair ==
    /\ calls < MaxCalls
    /\ \E latest_rtt \in RttSamples, step \in TimeSteps,
          ack_delay \in AckDelays, handshake_confirmed \in BOOLEAN,
          twin_ack_delay \in AckDelays, twin_handshake_confirmed \in BOOLEAN :
          LET now == clock + step IN
          /\ stats' = update_rtt(stats, latest_rtt, ack_delay, now,
                                 handshake_confirmed)
          /\ twin' = update_rtt(twin, latest_rtt, twin_ack_delay, now,
                                twin_handshake_confirmed)
          /\ clock' = now
    /\ calls' = calls + 1
    /\ UNCHANGED <<samples, arg_ack_delay, arg_handshake_confirmed,
                   adjusted_rtt, arg_initial_rtt, faults, client>>

NextPair == UpdateRttPair

SpecPair == Init /\ [][NextPair]_vars

\* durations of the extreme calls (ns): zero, a few nanoseconds, the largest
WideDurations == {0, 3, DURATION_MAX}

\* Instants of the extreme calls (s), in any order
WideInstants == {0, 301}

\* one call of update_rtt with extreme arguments and any now, also one not
\* later than an earlier call's
UpdateRttWide ==
    /\ calls < MaxCalls
    /\ ~faults.panicked
    /\ \E latest_rtt \in WideDurations, ack_delay \in WideDurations,
          now \in WideInstants, handshake_confirmed \in BOOLEAN :
          /\ stats' = update_rtt_outcome(stats, latest_rtt, ack_delay, now,
                                         handshake_confirmed)
          /\ faults' =
                [ panicked |->
                    panic_point(stats, latest_rtt, ack_delay, now,
                                handshake_confirmed) # "none",
                  truncated |->
                    \/ faults.truncated
                    \/ cast_truncates(stats, latest_rtt, ack_delay, now,
                                      handshake_confirmed) ]
          /\ adjusted_rtt' =
                IF /\ stats.has_first_rtt_sample
                   /\ panic_point(stats, latest_rtt, ack_delay, now,
                                  handshake_confirmed) # "adjusted_rtt"
                THEN steady_adjusted_rtt(stats, latest_rtt, ack_delay, now,
                                         handshake_confirmed)
                ELSE NoValue
          /\ clock' = now
          /\ samples' = Append(samples, <<latest_rtt, now>>)
          /\ arg_ack_delay' = ack_delay
          /\ arg_handshake_confirmed' = handshake_confirmed
    /\ calls' = calls + 1
    /\ UNCHANGED <<twin, arg_initial_rtt, client>>

NextWide == UpdateRttWide

SpecWide == Init /\ [][NextWide]_vars

----------------------------------------------------------------------------
(* sync_client::connect: the event loop that runs a script of actions.     *)
(* Wall-clock time and durations are integers in one unit. The connection  *)
(* (quiche::Connection), the socket and the poller are the environment:    *)
(* what they return is chosen freely in every iteration.                   *)

\* latest wall-clock time of the model
MaxWall == 6

\* the kinds of Action the loop tells apart
SendFrame == [kind |-> "SendFrame"]

FlushPackets == [kind |-> "FlushPackets"]

WaitDuration(period) == [kind |-> "WaitDuration", period |-> period]

StreamEvent(response) == [kind |-> "StreamEvent", response |-> response]

\* the actions arguments of connect
Scripts ==
    { << WaitDuration(4), SendFrame >>,
      << SendFrame, WaitDuration(2), WaitDuration(3), SendFrame >>,
      << SendFrame, StreamEvent(1), SendFrame, FlushPackets, SendFrame >>,
      << SendFrame, SendFrame, StreamEvent(1), SendFrame >> }

\* values of conn.timeout()
ConnTimeouts == {None, Some(3)}

\* time poll can take
PollTimes == 0..4

\* stream responses parse_streams can deliver in one iteration
ResponseSets == {{}, {1}, {2}}

\* the for loop of handle_actions from position iter on
RECURSIVE send_actions(_, _, _)
send_actions(script, iter, fired) ==
    IF iter > Len(script)
    THEN [ret |-> None, iter |-> iter, waiting_for |-> {}, fired |-> fired]
    ELSE IF script[iter].kind = "FlushPackets"
    THEN [ret |-> None, iter |-> iter + 1, waiting_for |-> {},
          fired |-> fired]
    ELSE IF script[iter].kind = "WaitDuration"
    THEN [ret |-> Some(script[iter].period), iter |-> iter + 1,
          waiting_for |-> {}, fired |-> fired]
    ELSE IF script[iter].kind = "StreamEvent"
    THEN [ret |-> None, iter |-> iter + 1,
          waiting_for |-> {script[iter].response}, fired |-> fired]
    ELSE send_actions(script, iter + 1, Append(fired, iter))

\* handle_actions without the early return on a non-empty waiting_for
handle_actions_ignoring_waits(script, iter, waiting_for) ==
    LET h == send_actions(script, iter, <<>>) IN
    [h EXCEPT !.waiting_for = waiting_for \cup @]

\* the returned wait, the iterator and waiting_for after the call, and the
\* positions of the actions it executed
handle_actions(script, iter, waiting_for) ==
    IF waiting_for # {}
    THEN [ret |-> None, iter |-> iter, waiting_for |-> waiting_for,
          fired |-> <<>>]
    ELSE send_actions(script, iter, <<>>)

\* the log of executed actions: position, time, and the end of the wait that
\* was last returned before
RECURSIVE log_fired(_, _, _, _)
log_fired(executed, fired, now, not_before) ==
    IF fired = <<>> THEN executed
    ELSE log_fired(Append(executed, [action |-> Head(fired), at |-> now,
                                     not_before |-> not_before]),
                   Tail(fired), now, not_before)

\* the locals after handle_actions was called at now and its result stored;
\* keep_instant tells the branch that leaves wait_instant alone
after_handle_actions(c, now, keep_instant) ==
    LET h == handle_actions(c.script, c.action_iter, c.waiting_for) IN
    [ c EXCEPT
        !.action_iter = h.iter,
        !.waiting_for = h.waiting_for,
        !.wait_duration = h.ret,
        !.last_call = Some([iter |-> c.action_iter,
                            waiting_for |-> c.waiting_for, result |-> h]),
        !.wait_instant = IF h.ret # None /\ ~keep_instant THEN Some(now)
                         ELSE @,
        !.executed = log_fired(@, h.fired, now, c.wait_end),
        !.wait_end = IF h.ret # None THEN now + h.ret[2] ELSE @ ]

check_duration_and_do_actions(c, now) ==
    IF c.wait_duration = None
    THEN after_handle_actions(c, now, FALSE)
    ELSE IF duration_since(now, c.wait_instant[2]) >= c.wait_duration[2]
    THEN after_handle_actions(c, now, TRUE)
    ELSE c

\* wait_duration after the match at the top of the loop
shaved_wait(wait_duration, timeout) ==
    IF wait_duration # None /\ timeout # None /\ timeout[2] < wait_duration[2]
    THEN Some(wait_duration[2] - timeout[2])
    ELSE wait_duration

\* actual_sleep of the match at the top of the loop
actual_sleep(wait_duration, timeout) ==
    IF wait_duration # None /\ timeout # None
    THEN Some(DurationMin(wait_duration[2], timeout[2]))
    ELSE IF timeout # None THEN timeout
    ELSE wait_duration

\* connect up to the loop
InitClient ==
    /\ InitRtt(0, 0)
    /\ \E script \in Scripts :
          client = [ pc                |-> "loop",
                     result            |-> "none",
                     script            |-> script,
                     wall              |-> 0,
                     action_iter       |-> 1,
                     wait_duration     |-> None,
                     wait_instant      |-> None,
                     waiting_for       |-> {},
                     app_proto_selected |-> FALSE,
                     established       |-> FALSE,
                     closed            |-> FALSE,
                     last_call         |-> None,
                     executed          |-> <<>>,
                     wait_end          |-> 0 ]

\* connect returns: no further iteration
returned(c, result) == [c EXCEPT !.pc = "done", !.result = result]

\* a closed connection taken for a finished one whatever the handshake
closed_result_unchecked(established) == "Ok"

\* the result of a closed connection
closed_result(established) == IF established THEN "Ok" ELSE "HandshakeFail"

\* the part of an iteration from the creation of the application session to
\* the end, for a connection that is open after reading
run_actions(c, now, responses) ==
    IF ~c.app_proto_selected THEN c
    ELSE LET first == check_duration_and_do_actions(c, now)
             cleared == [first EXCEPT !.waiting_for = @ \ responses]
         IN  IF responses # {}
             THEN check_duration_and_do_actions(cleared, now)
             ELSE cleared

\* one iteration of the loop of connect; established and closed hold the
\* last answers of conn.is_established() and conn.is_closed()
LoopIteration ==
    /\ client.pc = "loop"
    /\ \E timeout \in ConnTimeouts, elapsed \in PollTimes,
          recv \in {"ok", "failed"}, send \in {"ok", "failed"},
          established \in BOOLEAN, in_early_data \in BOOLEAN,
          established_on_send \in BOOLEAN,
          closed_on_read \in BOOLEAN, closed_on_send \in BOOLEAN,
          responses \in ResponseSets :
          LET sleep == actual_sleep(client.wait_duration, timeout)
              now == client.wall + elapsed
              polled == [ client EXCEPT
                            !.wait_duration = shaved_wait(@, timeout),
                            !.wall = now ]
              read == [ polled EXCEPT
                          !.closed = closed_on_read,
                          !.established = established ]
              selected == [ read EXCEPT
                              !.app_proto_selected =
                                  @ \/ established \/ in_early_data ]
              acted == run_actions(selected, now, responses)
              sent == [ acted EXCEPT
                          !.closed = closed_on_send,
                          !.established = IF closed_on_send
                                          THEN established_on_send ELSE @ ]
          IN
          /\ sleep # None => elapsed <= sleep[2]
          /\ now <= MaxWall
          /\ client.established => established
          /\ established => established_on_send
          /\ client' =
                IF recv = "failed" THEN returned(polled, "Other")
                ELSE IF closed_on_read
                THEN returned(read, closed_result(established))
                ELSE IF send = "failed" THEN returned(acted, "Other")
                ELSE IF closed_on_send
                THEN returned(sent, closed_result(established_on_send))
                ELSE sent
    /\ UNCHANGED rttvars

NextClient == LoopIteration

SpecClient == InitClient /\ [][NextClient]_vars

----------------------------------------------------------------------------
(* Properties *)

\* a state right after a call on the steady-state path
SteadyCallDone == calls >= 2

\* a step that is an update_rtt call on the steady-state path
SteadyCallStep == stats.has_first_rtt_sample /\ calls' = calls + 1

\* the ack delay of the last call after the limit the claim describes
LastAckDelayLimited ==
    IF arg_handshake_confirmed /\ arg_ack_delay > stats.max_ack_delay
    THEN stats.max_ack_delay
    ELSE arg_ack_delay

\* C1: min_rtt() and max_rtt() are None before any update_rtt call and
\* Some(..) after one or more calls, whatever the arguments.
C1_OptionalUntilFirstSample ==
    /\ calls = 0 => get_min_rtt(stats) = None /\ get_max_rtt(stats) = None
    /\ calls > 0 => /\ Len(get_min_rtt(stats)) = 2
                    /\ get_min_rtt(stats)[1] = "Some"
                    /\ Len(get_max_rtt(stats)) = 2
                    /\ get_max_rtt(stats)[1] = "Some"

C1_Witness ==
    /\ calls = 2
    /\ get_min_rtt(stats) = Some(ms(50))
    /\ get_max_rtt(stats) = Some(ms(120))

\* C2: the first update_rtt call sets smoothed_rtt = max_rtt = min_rtt =
\* latest_rtt and rttvar = latest_rtt / 2 (truncating), whatever initial_rtt,
\* ack_delay, max_ack_delay and handshake_confirmed are.
C2_FirstSampleBootstrap ==
    calls = 1 =>
        LET first == samples[1][1] IN
        /\ stats.latest_rtt = first
        /\ stats.smoothed_rtt = first
        /\ stats.max_rtt = first
        /\ Deref(stats.min_rtt) = first
        /\ 2 * stats.rttvar <= first
        /\ first < 2 * stats.rttvar + 2

C2_Witness ==
    /\ calls = 1
    /\ samples[1][1] = ms(120)
    /\ arg_ack_delay = ms(40)
    /\ ~arg_handshake_confirmed
    /\ stats.smoothed_rtt = ms(120)
    /\ stats.rttvar = ms(60)
    /\ get_min_rtt(stats) = Some(ms(120))
    /\ get_max_rtt(stats) = Some(ms(120))

\* C3: on every call after the first, the new rttvar is
\* old_rttvar*3/4 + |old_smoothed_rtt - adjusted_rtt|/4 with truncating
\* division, old_smoothed_rtt being the value before this call overwrites it.
C3_RttvarUpdate ==
    [][SteadyCallStep =>
         stats'.rttvar = (stats.rttvar * 3) \div 4
                         + (IF stats.smoothed_rtt >= adjusted_rtt'
                            THEN stats.smoothed_rtt - adjusted_rtt'
                            ELSE adjusted_rtt' - stats.smoothed_rtt) \div 4]_vars

C3_Witness ==
    /\ calls = 2
    /\ samples[1][1] = ms(120)
    /\ samples[2][1] = ms(100)
    /\ adjusted_rtt = ms(100)
    /\ stats.rttvar = ms(50)

\* C4: on every call after the first, the new smoothed_rtt is
\* old_smoothed_rtt*7/8 + adjusted_rtt/8, each term truncated to nanoseconds.
C4_SmoothedUpdate ==
    [][SteadyCallStep =>
         stats'.smoothed_rtt = (stats.smoothed_rtt * 7) \div 8
                               + adjusted_rtt' \div 8]_vars

C4_Witness ==
    /\ calls = 2
    /\ samples[1][1] = ms(120)
    /\ adjusted_rtt = ms(100)
    /\ stats.smoothed_rtt = 117500000

\* C5: in steady state adjusted_rtt = latest_rtt - ack_delay exactly when
\* latest_rtt >= min_rtt + ack_delay, and latest_rtt otherwise, with min_rtt
\* the windowed minimum after this call's sample and ack_delay the (possibly
\* limited) delay.
C5_AckDelayPlausibility ==
    SteadyCallDone =>
        /\ stats.latest_rtt >= Deref(stats.min_rtt) + LastAckDelayLimited
              => adjusted_rtt = stats.latest_rtt - LastAckDelayLimited
        /\ stats.latest_rtt < Deref(stats.min_rtt) + LastAckDelayLimited
              => adjusted_rtt = stats.latest_rtt

C5_Witness ==
    /\ calls = 2
    /\ Deref(stats.min_rtt) = ms(50)
    /\ arg_ack_delay = ms(40)
    /\ ~arg_handshake_confirmed
    /\ stats.latest_rtt = ms(60)
    /\ adjusted_rtt = ms(60)

\* C6: in steady state with handshake_confirmed the amount subtracted from the
\* sample is at most max_ack_delay; without it the reported ack_delay is used
\* as it is.
C6_AckDelayLimit ==
    SteadyCallDone =>
        /\ arg_handshake_confirmed
              => stats.latest_rtt - adjusted_rtt <= stats.max_ack_delay
        /\ ~arg_handshake_confirmed
              => /\ stats.latest_rtt - adjusted_rtt \in {0, arg_ack_delay}
                 /\ stats.latest_rtt >= Deref(stats.min_rtt) + arg_ack_delay
                       => stats.latest_rtt - adjusted_rtt = arg_ack_delay

C6_Witness ==
    /\ calls = 2
    /\ arg_handshake_confirmed
    /\ arg_ack_delay > stats.max_ack_delay
    /\ stats.latest_rtt - adjusted_rtt = stats.max_ack_delay
    /\ stats.max_ack_delay > 0

\* C7: two estimators constructed identically and fed the same latest_rtt and
\* now but different ack_delay and handshake_confirmed report the same
\* min_rtt(), max_rtt() and latest_rtt() after every call.
C7_AckDelayIndependence ==
    /\ get_min_rtt(stats) = get_min_rtt(twin)
    /\ get_max_rtt(stats) = get_max_rtt(twin)
    /\ get_latest_rtt(stats) = get_latest_rtt(twin)

C7_Witness ==
    /\ calls = 3
    /\ rtt(stats) # rtt(twin)
    /\ get_rttvar(stats) # get_rttvar(twin)
    /\ get_min_rtt(stats) = get_min_rtt(twin)
    /\ Deref(stats.min_rtt) > ms(50)

\* C8 (as stated): the max_rtt value after each call is >= the value before
\* that call, starting from construction with any initial_rtt.
C8_MaxRttNeverDecreases ==
    [][stats'.max_rtt >= stats.max_rtt]_vars

\* C8 (amended): max_rtt is non-decreasing across every call after the first;
\* the first call replaces the initial_rtt seed by latest_rtt.
C8_MaxRttMonotoneAfterFirst ==
    [][stats.has_first_rtt_sample => stats'.max_rtt >= stats.max_rtt]_vars

C8_Witness ==
    /\ calls = 3
    /\ samples[1][1] = ms(60)
    /\ samples[2][1] = ms(100)
    /\ samples[3][1] = ms(50)
    /\ stats.max_rtt = ms(100)

\* C9: after every update_rtt call, latest_rtt equals the latest_rtt argument
\* of that call and max_rtt >= latest_rtt.
C9_LatestRecordedAndBounded ==
    calls >= 1 =>
        /\ get_latest_rtt(stats) = samples[calls][1]
        /\ stats.max_rtt >= stats.latest_rtt

C9_Witness ==
    /\ calls = 2
    /\ samples[1][1] = ms(50)
    /\ samples[2][1] = ms(120)
    /\ stats.latest_rtt = ms(120)
    /\ stats.max_rtt = ms(120)

InWindow == {i \in 1..calls : clock - samples[i][2] <= 300}

C12_ExpiredNeverReported ==
    calls >= 2 =>
        \A i \in 1..calls :
            (/\ clock - samples[i][2] > 300
             /\ samples[calls][1] > samples[i][1]
             /\ Deref(stats.min_rtt) = samples[i][1])
                => \E j \in InWindow : samples[j][1] = samples[i][1]

C12_Witness ==
    /\ calls = 2
    /\ clock - samples[1][2] > 300
    /\ samples[1][1] = 3
    /\ samples[2][1] = ms(60)
    /\ get_min_rtt(stats) = Some(ms(60))

\* the larger of the latest and the smoothed RTT of an estimator
Peak(self) ==
    IF self.latest_rtt >= self.smoothed_rtt THEN self.latest_rtt
    ELSE self.smoothed_rtt

\* C13: in every reachable state and for every time_thresh, loss_delay is
\* max(max(latest_rtt, smoothed_rtt) * time_thresh, GRANULARITY), so never
\* below GRANULARITY.
C13_LossDelayFloored ==
    \A t \in TimeThreshs :
        /\ loss_delay(stats, t) >= GRANULARITY
        /\ mul_f64(Peak(stats), t) >= GRANULARITY
              => loss_delay(stats, t) = mul_f64(Peak(stats), t)
        /\ mul_f64(Peak(stats), t) < GRANULARITY
              => loss_delay(stats, t) = GRANULARITY

C13_Witness ==
    /\ calls = 0
    /\ stats.latest_rtt = 0
    /\ stats.smoothed_rtt = 0
    /\ loss_delay(stats, <<9, 8>>) = ms(1)

\* loss_delay of a is at most that of b whenever a's peak is at most b's
LossDelayOrdered(a, b) ==
    \A t \in TimeThreshs :
        Peak(a) <= Peak(b) => loss_delay(a, t) <= loss_delay(b, t)

C16_StateAfterNew ==
    calls = 0 =>
        /\ rtt(stats) = arg_initial_rtt
        /\ 2 * get_rttvar(stats) <= arg_initial_rtt
        /\ arg_initial_rtt < 2 * get_rttvar(stats) + 2
        /\ get_latest_rtt(stats) = 0
        /\ stats.max_rtt = arg_initial_rtt
        /\ Deref(stats.min_rtt) = arg_initial_rtt
        /\ ~stats.has_first_rtt_sample

C16_Witness ==
    /\ calls = 0
    /\ arg_initial_rtt = ms(333) + 1
    /\ rtt(stats) = ms(333) + 1
    /\ get_rttvar(stats) = 166500000
    /\ stats.max_rtt = ms(333) + 1

\* C17: has_first_rtt_sample is false until the first update_rtt call, becomes
\* true in that call and is never false again; the first call takes the
\* bootstrap path and resets the tracker to its sample alone, every later call
\* takes the steady-state path and keeps the tracker's history.
C17_BootstrapOnce ==
    /\ [](stats.has_first_rtt_sample <=> calls >= 1)
    /\ [][stats.has_first_rtt_sample => stats'.has_first_rtt_sample]_vars
    /\ [](calls = 1 => /\ adjusted_rtt = NoValue
                       /\ stats.min_rtt = << samples[1] >>)
    /\ [](calls >= 2 => adjusted_rtt # NoValue)
    /\ [][(/\ SteadyCallStep
           /\ stats'.latest_rtt > Deref(stats.min_rtt)
           /\ clock' - stats.min_rtt[1][2] <= 300)
              => Deref(stats'.min_rtt) = Deref(stats.min_rtt)]_vars

C17_Witness ==
    /\ calls = 3
    /\ stats.has_first_rtt_sample
    /\ adjusted_rtt # NoValue
    /\ InWindow = {1, 2, 3}
    /\ samples[1][1] = ms(50)
    /\ samples[2][1] = ms(100)
    /\ samples[3][1] = ms(60)
    /\ Deref(stats.min_rtt) = ms(50)

\* C18: in every steady-state call the adjusted sample is not below the
\* windowed minimum, whatever the ack delay and handshake_confirmed.
C18_AdjustedNotBelowMin ==
    SteadyCallDone => adjusted_rtt >= Deref(stats.min_rtt)

C18_Witness ==
    /\ calls = 2
    /\ samples[1][1] = ms(60)
    /\ samples[2][1] = ms(100)
    /\ arg_ack_delay = ms(40)
    /\ ~arg_handshake_confirmed
    /\ Deref(stats.min_rtt) = ms(60)
    /\ adjusted_rtt = ms(60)

\* C19: after at least one update_rtt call, rtt() <= max_rtt().
C19_SmoothedAtMostMax ==
    calls >= 1 =>
        /\ get_max_rtt(stats) # None
        /\ rtt(stats) <= get_max_rtt(stats)[2]

C19_Witness ==
    /\ calls = 3
    /\ get_max_rtt(stats) = Some(ms(120))
    /\ stats.latest_rtt = 3
    /\ rtt(stats) > ms(60)
    /\ rtt(stats) < ms(120)

\* C15: update_rtt never fails: for every representable latest_rtt and
\* ack_delay, either handshake_confirmed and any now, the call completes with
\* no arithmetic overflow (panic) and no truncation.
C15_UpdateNeverFails ==
    ~faults.panicked /\ ~faults.truncated

\* C20: once handle_actions has returned a WaitDuration(p) wait, no later
\* action of the script is executed before p has elapsed since that wait
\* began, whatever the connection timeouts, also when one wait follows another.
C20_WaitDurationHonoured ==
    client.pc # "not started" =>
        \A i \in 1..Len(client.executed) :
            client.executed[i].at >= client.executed[i].not_before

\* an action at which the for loop of handle_actions returns
stops_actions(action) ==
    action.kind \in {"FlushPackets", "WaitDuration", "StreamEvent"}

\* C21: handle_actions executes no action and consumes nothing from the
\* action iterator while waiting_for is non-empty; otherwise it executes the
\* actions in script order from the iterator's position on, each at most once,
\* and stops at the first FlushPackets, WaitDuration or StreamEvent wait,
\* which it consumes, leaving the actions after it for a later call.
C21_HandleActionsOrder ==
    client.pc # "not started" =>
        /\ \A i, j \in 1..Len(client.executed) :
              i < j => client.executed[i].action < client.executed[j].action
        /\ \A i \in 1..Len(client.executed) :
              /\ client.executed[i].action < client.action_iter
              /\ ~stops_actions(client.script[client.executed[i].action])
        /\ client.last_call # None =>
              LET call == client.last_call[2]
                  h == call.result
                  count == Len(h.fired)
              IN  IF call.waiting_for # {}
                  THEN /\ h.fired = <<>>
                       /\ h.iter = call.iter
                       /\ h.ret = None
                       /\ h.waiting_for = call.waiting_for
                  ELSE /\ \A k \in 1..count : h.fired[k] = call.iter + k - 1
                       /\ \A k \in 1..count :
                             ~stops_actions(client.script[h.fired[k]])
                       /\ \/ /\ call.iter + count <= Len(client.script)
                             /\ stops_actions(client.script[call.iter + count])
                             /\ h.iter = call.iter + count + 1
                          \/ /\ call.iter + count = Len(client.script) + 1
                             /\ h.iter = call.iter + count
                             /\ h.ret = None

\* two actions were executed in order up to a StreamEvent wait, and a later call
\* found waiting_for non-empty and left the fourth action in the iterator
C21_Witness ==
    /\ client.pc = "loop"
    /\ Len(client.script) = 4
    /\ Len(client.executed) = 2
    /\ client.last_call # None
    /\ client.last_call[2].waiting_for = {1}
    /\ client.action_iter = 4

\* C22: connect returns Err(ClientError::HandshakeFail) whenever the
\* connection is observed closed while not established, and returns
\* Ok(ConnectionSummary) only after the connection has been observed closed and
\* established; it never returns Ok while the connection is still open, and
\* it does not go on once the connection was observed closed.
C22_ResultOfClosedConnection ==
    client.pc # "not started" =>
        /\ client.closed /\ ~client.established
              => client.pc = "done" /\ client.result = "HandshakeFail"
        /\ client.result = "Ok"
              => client.pc = "done" /\ client.closed /\ client.established
        /\ client.result = "HandshakeFail"
              => client.closed /\ ~client.established
        /\ client.pc = "loop" => ~client.closed /\ client.result = "none"

\* connect returned Ok after the script ran and the established connection
\* was seen closed after sending
C22_Witness ==
    /\ client.pc = "done"
    /\ client.result = "Ok"
    /\ client.closed
    /\ client.established
    /\ client.executed # <<>>
    /\ client.action_iter = Len(client.script) + 1

====
